---- MODULE Spec2Model ----
(***************************************************************************)
(* Model of distinst's DiskExt trait (src/src/disk/config/disk_trait.rs):  *)
(* overlaps_region, get_used, get_sector, add_partition, contains_mount,   *)
(* find_partition and find_partition_mut.                                  *)
(*                                                                         *)
(* Four specifications share the variables below:                          *)
(*   Spec        a device receiving add_partition / overlaps_region calls  *)
(*   SpecSector  get_sector on a device geometry                           *)
(*   SpecMount   contains_mount, the recursion unfolded on a call stack    *)
(*   SpecFind    find_partition / find_partition_mut on a device slice     *)
(***************************************************************************)
EXTENDS Integers, Sequences, FiniteSets

VARIABLES
    LOGICAL,          \* DiskExt::LOGICAL of the device under add_partition
    total_sectors,    \* get_sectors()
    sector_size,      \* get_sector_size()
    partitions,       \* get_partitions(): sequence of PartitionInfo
    before,           \* history: the partition list when the last call began
    builder,          \* history: the PartitionBuilder of the last add_partition
    result,           \* history: what the last add_partition returned
    consulted,        \* history: the checks the last add_partition ran, in order
    query,            \* history: the last overlaps_region call and its return
    overflow_checks,  \* build profile: TRUE = arithmetic overflow panics
    resolved,         \* history: the get_sector calls made, with their results
    disks,            \* the Disks collection / the device slice
    mount,            \* the path asked of contains_mount / find_partition
    device,           \* contains_mount: the device the outermost call is on
    stack,            \* contains_mount: the active calls, innermost last
    status,           \* contains_mount: "idle", "running", "done", "stack_overflow"
    ret,              \* contains_mount: the value returned by the last finished call
    found,            \* find_partition's return
    found_mut         \* find_partition_mut's return

vars == <<LOGICAL, total_sectors, sector_size, partitions, before, builder,
          result, consulted, query, overflow_checks, resolved, disks, mount,
          device, stack, status, ret, found, found_mut>>

addVars    == <<LOGICAL, total_sectors, sector_size, partitions, before,
                builder, result, consulted, query>>
sectorVars == <<overflow_checks, resolved>>
mountVars  == <<device, stack, status, ret>>
findVars   == <<found, found_mut>>

\* Option<T>: None is the empty sequence, Some(x) the sequence holding x.
None == <<>>
Some(x) == <<x>>

\* The history variables before any call.
NoCall == [kind |-> "NoCall"]

\* Largest sector number of the add_partition model.
MaxSector == 2
\* Longest partition list add_partition is allowed to build.
MaxParts == 3

Sectors == 0..MaxSector

(***************************************************************************)
(* PartitionInfo, as far as add_partition reads it.  `remove` is the       *)
(* REMOVE bit of the partition's bitflags.                                 *)
(***************************************************************************)
PartitionInfo(number, start, end, remove) ==
    [number |-> number, start_sector |-> start, end_sector |-> end, remove |-> remove]

\* PartitionInfo::sectors(): the number of sectors of an inclusive range.
sectors(part) == part.end_sector - part.start_sector + 1

\* part.flag_is_enabled(REMOVE)
flag_is_enabled_REMOVE(part) == part.remove

\* The closure given to .find() in overlaps_region.
ConflictsExclusiveEnd(part, start, end) ==
    ~(  (start < part.start_sector /\ end <= part.start_sector)
     \/ (start >= part.end_sector /\ end > part.end_sector) )

Conflicts(part, start, end) ==
    ~(  (start < part.start_sector /\ end < part.start_sector)
     \/ (start > part.end_sector /\ end > part.end_sector) )

\* Iterator::find over the filtered iterator: the index of the first partition
\* from position i on that is not flagged REMOVE and conflicts, 0 if none.
RECURSIVE FindConflict(_, _, _, _)
FindConflict(parts, start, end, i) ==
    IF i > Len(parts) THEN 0
    ELSE IF ~flag_is_enabled_REMOVE(parts[i]) /\ Conflicts(parts[i], start, end)
         THEN i
         ELSE FindConflict(parts, start, end, i + 1)

RECURSIVE FindConflictNoFilter(_, _, _, _)
FindConflictNoFilter(parts, start, end, i) ==
    IF i > Len(parts) THEN 0
    ELSE IF Conflicts(parts[i], start, end)
         THEN i
         ELSE FindConflictNoFilter(parts, start, end, i + 1)

overlaps_region_ignoring_remove(parts, start, end) ==
    LET i == FindConflictNoFilter(parts, start, end, 1)
    IN  IF i = 0 THEN None ELSE Some(parts[i].number)

\* DiskExt::overlaps_region: Option<i32>, None or the partition's number.
overlaps_region(parts, start, end) ==
    LET i == FindConflict(parts, start, end, 1)
    IN  IF i = 0 THEN None ELSE Some(parts[i].number)

\* DiskExt::get_used: the sum of sectors() over the partitions not flagged REMOVE.
RECURSIVE get_used(_)
get_used(parts) ==
    IF parts = <<>> THEN 0
    ELSE (IF flag_is_enabled_REMOVE(Head(parts)) THEN 0 ELSE sectors(Head(parts)))
         + get_used(Tail(parts))

\* PartitionBuilder::build: the partition the builder describes.  It carries
\* the builder's bounds and no REMOVE flag; its number is the builder's.
build(b) == PartitionInfo(b.number, b.start_sector, b.end_sector, FALSE)

\* push_partition
push_partition(parts, partition) == Append(parts, partition)

Ok == [kind |-> "Ok"]
SectorOverlaps(id) == [kind |-> "SectorOverlaps", id |-> id]
PartitionOOB == [kind |-> "PartitionOOB"]
TableError == [kind |-> "TableError"]
SizeError == [kind |-> "SizeError"]

\* The outcome of an add_partition call: what it returns, the partition list
\* it leaves, and the checks it ran.
Outcome(res, parts, checks) == [result |-> res, partitions |-> parts, consulted |-> checks]

\* The checks add_partition can run, as they are logged in `consulted`.
ChkOverlap == "overlaps_region"
ChkCapacity == "capacity"
ChkTable == "validate_partition_table"
ChkSize == "check_partition_size"

\* A PartitionBuilder, as far as add_partition reads it.
PartitionBuilder(number, start, end) ==
    [number |-> number, start_sector |-> start, end_sector |-> end]

(***************************************************************************)
(* DiskExt::add_partition.  tableRes and sizeRes are what the device's     *)
(* validate_partition_table and check_partition_size answer when asked.    *)
(***************************************************************************)
add_partition_push_before_size(logical, total, ssize, parts, b, tableRes, sizeRes) ==
    LET id == overlaps_region(parts, b.start_sector, b.end_sector)
        estimated_size == get_used(parts) + (b.end_sector - b.start_sector)
        partition == build(b)
        c1 == IF logical THEN <<>> ELSE <<ChkOverlap>>
        c2 == c1 \o <<ChkCapacity>>
        c3 == c2 \o <<ChkTable>>
        c4 == c3 \o <<ChkSize>>
    IN  IF ~logical /\ id # None THEN Outcome(SectorOverlaps(id[1]), parts, c1)
        ELSE IF logical /\ total < estimated_size THEN Outcome(PartitionOOB, parts, c2)
        ELSE IF ~logical /\ total < b.end_sector THEN Outcome(PartitionOOB, parts, c2)
        ELSE IF tableRes # "Ok" THEN Outcome(TableError, parts, c3)
        ELSE IF sizeRes # "Ok"
             THEN Outcome(SizeError, push_partition(parts, partition), c4)
             ELSE Outcome(Ok, push_partition(parts, partition), c4)

add_partition_capacity_first(logical, total, ssize, parts, b, tableRes, sizeRes) ==
    LET id == overlaps_region(parts, b.start_sector, b.end_sector)
        estimated_size == get_used(parts) + (b.end_sector - b.start_sector)
        partition == build(b)
        c1 == <<ChkCapacity>>
        c2 == IF logical THEN c1 ELSE c1 \o <<ChkOverlap>>
        c3 == c2 \o <<ChkTable>>
        c4 == c3 \o <<ChkSize>>
    IN  IF logical /\ total < estimated_size THEN Outcome(PartitionOOB, parts, c1)
        ELSE IF ~logical /\ total < b.end_sector THEN Outcome(PartitionOOB, parts, c1)
        ELSE IF ~logical /\ id # None THEN Outcome(SectorOverlaps(id[1]), parts, c2)
        ELSE IF tableRes # "Ok" THEN Outcome(TableError, parts, c3)
        ELSE IF sizeRes # "Ok" THEN Outcome(SizeError, parts, c4)
        ELSE Outcome(Ok, push_partition(parts, partition), c4)

add_partition_no_overlap_check(logical, total, ssize, parts, b, tableRes, sizeRes) ==
    LET estimated_size == get_used(parts) + (b.end_sector - b.start_sector)
        partition == build(b)
        c2 == <<ChkCapacity>>
        c3 == c2 \o <<ChkTable>>
        c4 == c3 \o <<ChkSize>>
    IN  IF logical /\ total < estimated_size THEN Outcome(PartitionOOB, parts, c2)
        ELSE IF ~logical /\ total < b.end_sector THEN Outcome(PartitionOOB, parts, c2)
        ELSE IF tableRes # "Ok" THEN Outcome(TableError, parts, c3)
        ELSE IF sizeRes # "Ok" THEN Outcome(SizeError, parts, c4)
        ELSE Outcome(Ok, push_partition(parts, partition), c4)

add_partition(logical, total, ssize, parts, b, tableRes, sizeRes) ==
    LET id == overlaps_region(parts, b.start_sector, b.end_sector)
        estimated_size == get_used(parts) + (b.end_sector - b.start_sector)
        partition == build(b)
        c1 == IF logical THEN <<>> ELSE <<ChkOverlap>>
        c2 == c1 \o <<ChkCapacity>>
        c3 == c2 \o <<ChkTable>>
        c4 == c3 \o <<ChkSize>>
    IN  \* Ensure that the values aren't already contained within an existing partition.
        IF ~logical /\ id # None THEN Outcome(SectorOverlaps(id[1]), parts, c1)
        \* And that the end can fit onto the disk.
        ELSE IF logical /\ total < estimated_size THEN Outcome(PartitionOOB, parts, c2)
        ELSE IF ~logical /\ total < b.end_sector THEN Outcome(PartitionOOB, parts, c2)
        \* Perform partition table & MSDOS restriction tests.
        ELSE IF tableRes # "Ok" THEN Outcome(TableError, parts, c3)
        \* check_partition_size(partition.sectors() * self.get_sector_size(), fs)?
        ELSE IF sizeRes # "Ok" THEN Outcome(SizeError, parts, c4)
        ELSE Outcome(Ok, push_partition(parts, partition), c4)

(***************************************************************************)
(* The device states add_partition starts from.                            *)
(***************************************************************************)
Ranges == {r \in Sectors \X Sectors : r[1] <= r[2]}

InitialPartitions(n) ==
    {PartitionInfo(n, r[1], r[2], rm) : r \in Ranges, rm \in BOOLEAN}

InitialLists ==
    {<<>>} \cup {<<p>> : p \in InitialPartitions(1)}
           \cup {<<p, q>> : p \in InitialPartitions(1), q \in InitialPartitions(2)}

\* The partitions not flagged REMOVE have pairwise disjoint inclusive ranges.
PairwiseDisjoint(parts) ==
    \A i, j \in 1..Len(parts) :
        (i < j /\ ~parts[i].remove /\ ~parts[j].remove)
            => (parts[i].end_sector < parts[j].start_sector
                \/ parts[j].end_sector < parts[i].start_sector)

\* The partitions not flagged REMOVE end at or below the device's last sector.
WithinDevice(parts, total) ==
    \A i \in 1..Len(parts) : ~parts[i].remove => parts[i].end_sector <= total

\* A physical disk's table holds disjoint partitions inside the disk; a logical
\* device's volumes fit its pool.
InitialDevice(logical, total, parts) ==
    IF logical THEN get_used(parts) <= total
    ELSE PairwiseDisjoint(parts) /\ WithinDevice(parts, total)

IdleSector == overflow_checks = FALSE /\ resolved = <<>>
IdleMount == device = 0 /\ stack = <<>> /\ status = "idle" /\ ret = FALSE
IdleFind == found = NoCall /\ found_mut = NoCall
IdleDisks == disks = <<>> /\ mount = ""

\* The tables add_partition starts from: at most one partition discovered.
ShortLists == {l \in InitialLists : Len(l) <= 1}

InitDevice(lists) ==
    /\ LOGICAL \in BOOLEAN
    /\ total_sectors = MaxSector - 1
    /\ sector_size = 512
    /\ partitions \in lists
    /\ InitialDevice(LOGICAL, total_sectors, partitions)
    /\ before = partitions
    /\ builder = NoCall
    /\ result = NoCall
    /\ consulted = <<>>
    /\ query = NoCall
    /\ IdleSector /\ IdleMount /\ IdleFind /\ IdleDisks

Init == InitDevice(ShortLists)

InitOverlap == InitDevice(InitialLists)

\* The number a builder gives the partition it builds: the next slot of the table.
BuiltNumbers(parts) == {Len(parts) + 1}

\* A call of add_partition on the device.
AddPartition ==
    /\ Len(partitions) < MaxParts
    /\ \E r \in Ranges, tableRes \in {"Ok", "Err"}, sizeRes \in {"Ok", "Err"} :
       \E n \in BuiltNumbers(partitions) :
         LET b == PartitionBuilder(n, r[1], r[2])
             out == add_partition(LOGICAL, total_sectors, sector_size,
                                  partitions, b, tableRes, sizeRes)
         IN  /\ before' = partitions
             /\ builder' = [kind |-> "Call", number |-> n, start_sector |-> r[1],
                             end_sector |-> r[2], table |-> tableRes, size |-> sizeRes]
             /\ partitions' = out.partitions
             /\ result' = out.result
             /\ consulted' = out.consulted
    /\ UNCHANGED <<LOGICAL, total_sectors, sector_size, query>>
    /\ UNCHANGED <<overflow_checks, resolved, mountVars, findVars, disks, mount>>

\* A call of overlaps_region on the device.
OverlapsRegion ==
    /\ \E r \in Ranges :
         query' = [kind |-> "Call", start |-> r[1], end |-> r[2],
                   out |-> overlaps_region(partitions, r[1], r[2])]
    /\ UNCHANGED <<LOGICAL, total_sectors, sector_size, partitions, before,
                   builder, result, consulted>>
    /\ UNCHANGED <<overflow_checks, resolved, mountVars, findVars, disks, mount>>

Next == AddPartition

Spec == Init /\ [][Next]_vars

NextOverlap == OverlapsRegion

SpecOverlap == InitOverlap /\ [][NextOverlap]_vars

(***************************************************************************)
(* DiskExt::get_sector.  The source computes in u64; TLC's integers are    *)
(* 32 bits wide, so the machine word is modelled WordBits wide: every      *)
(* operation is taken modulo 2^WordBits and records whether it left the    *)
(* word (`of`).  With overflow checks compiled in (debug profile) such an  *)
(* operation panics; without them (release profile) the wrapped value is   *)
(* used.  Both profiles are initial states.                                *)
(***************************************************************************)
\* Width of the modelled machine word, standing for u64's 64 bits.
WordBits == 24
Modulus == 2 ^ WordBits

\* const MIB2: u64 = 2 * 1024 * 1024;
MIB2 == 2 * 1024 * 1024
\* The 1_000_000 of the megabyte closure.
Million == 1000000
\* ::std::u16::MAX
U16_MAX == 65535

\* A word with the record of whether computing it overflowed.
Word(x) == [v |-> x, of |-> FALSE]

\* a - b
Sub(a, b) ==
    [v  |-> IF a.v >= b.v THEN a.v - b.v ELSE a.v - b.v + Modulus,
     of |-> a.of \/ b.of \/ a.v < b.v]

\* (a * b) mod 2^WordBits, by doubling, so that no intermediate value exceeds
\* twice the modulus.
RECURSIVE MulMod(_, _)
MulMod(a, b) ==
    IF b = 0 THEN 0
    ELSE (2 * MulMod(a, b \div 2) + (IF b % 2 = 1 THEN a ELSE 0)) % Modulus

\* a * b
Mul(a, b) ==
    [v  |-> MulMod(a.v, b.v),
     of |-> a.of \/ b.of \/ (a.v # 0 /\ b.v > (Modulus - 1) \div a.v)]

\* a / b, b > 0
Div(a, b) == [v |-> a.v \div b.v, of |-> a.of \/ b.of]

\* let end = || self.get_sectors() - (MIB2 / self.get_sector_size());
get_sector_end(total, ssize) == Sub(Word(total), Div(Word(MIB2), Word(ssize)))

\* let megabyte = |size| (size * 1_000_000) / self.get_sector_size();
megabyte_divide_first(ssize, size) ==
    Mul(Div(Word(size), Word(ssize)), Word(Million))

megabyte(ssize, size) == Div(Mul(Word(size), Word(Million)), Word(ssize))

\* The Sector variants.
Start == [kind |-> "Start", size |-> 0]
End == [kind |-> "End", size |-> 0]
Megabyte(size) == [kind |-> "Megabyte", size |-> size]
MegabyteFromEnd(size) == [kind |-> "MegabyteFromEnd", size |-> size]
Unit(size) == [kind |-> "Unit", size |-> size]
UnitFromEnd(size) == [kind |-> "UnitFromEnd", size |-> size]
Percent(value) == [kind |-> "Percent", size |-> value]

\* DiskExt::get_sector
get_sector(total, ssize, sector) ==
    CASE sector.kind = "Start" -> Div(Word(MIB2), Word(ssize))
      [] sector.kind = "End" -> get_sector_end(total, ssize)
      [] sector.kind = "Megabyte" -> megabyte(ssize, sector.size)
      [] sector.kind = "MegabyteFromEnd" ->
            Sub(get_sector_end(total, ssize), megabyte(ssize, sector.size))
      [] sector.kind = "Unit" -> Word(sector.size)
      [] sector.kind = "UnitFromEnd" ->
            Sub(get_sector_end(total, ssize), Word(sector.size))
      [] sector.kind = "Percent" ->
            Div(Mul(Div(Mul(Word(total), Word(ssize)), Word(U16_MAX)),
                    Word(sector.size)),
                Word(ssize))

\* What a call returns: the value, or a panic when an operation overflowed
\* and overflow checks are on.
Panic == -1
Returned(checks, w) == IF checks /\ w.of THEN Panic ELSE w.v

\* The sizes asked for, on both sides of where End - n and n * 1_000_000
\* leave the word.
Sizes == {0, 1, 2, 17, 40, 904, 905}
SectorRequests ==
    {Start, End}
    \cup {Megabyte(n) : n \in Sizes} \cup {MegabyteFromEnd(n) : n \in Sizes}
    \cup {Unit(n) : n \in Sizes} \cup {UnitFromEnd(n) : n \in Sizes}
    \cup {Percent(v) : v \in {0, 32768, U16_MAX}}

IdleAdd ==
    /\ LOGICAL = FALSE /\ partitions = <<>> /\ before = <<>>
    /\ builder = NoCall /\ result = NoCall /\ consulted = <<>> /\ query = NoCall

\* A device geometry and a build profile; no call made yet.
InitSector ==
    /\ total_sectors \in {1000, 5000, 2000000}
    /\ sector_size \in {512, 4096, 2000000}
    /\ overflow_checks \in BOOLEAN
    /\ resolved = <<>>
    /\ IdleAdd /\ IdleMount /\ IdleFind /\ IdleDisks

\* A call of get_sector; `resolved` keeps the last two calls.
GetSector ==
    /\ \E sector \in SectorRequests :
         LET w == get_sector(total_sectors, sector_size, sector)
             call == [sector |-> sector, out |-> Returned(overflow_checks, w),
                      of |-> w.of]
         IN  resolved' = IF resolved = <<>> THEN <<call>>
                         ELSE <<resolved[Len(resolved)], call>>
    /\ UNCHANGED <<total_sectors, sector_size, overflow_checks>>
    /\ UNCHANGED <<LOGICAL, partitions, before, builder, result, consulted, query>>
    /\ UNCHANGED <<mountVars, findVars, disks, mount>>

NextSector == GetSector

SpecSector == InitSector /\ [][NextSector]_vars

(***************************************************************************)
(* The Disks collection, for contains_mount and find_partition.  A device  *)
(* is a physical disk or a logical (volume group) device; `parent` tells   *)
(* whether get_parent() is Some.  Every device's parent is the collection  *)
(* `disks` itself.                                                         *)
(***************************************************************************)
Device(path, logical, vg, mp, parent, parts) ==
    [path |-> path, logical |-> logical, volume_group |-> vg, mount_point |-> mp,
     parent |-> parent, partitions |-> parts]

\* PartitionInfo, as far as contains_mount and find_partition read it.
MountPartition(mp, vg, target) ==
    [mount_point |-> mp, volume_group |-> vg, target |-> target]

get_mount_point(dev) == dev.mount_point
get_parent(dev) == dev.parent
get_partitions(dev) == dev.partitions
get_device_path(dev) == dev.path

\* Disks::get_logical_device: the position of the first logical device of the
\* collection whose volume group is vg, 0 if there is none.
RECURSIVE LogicalFrom(_, _, _)
LogicalFrom(ds, vg, i) ==
    IF i > Len(ds) THEN 0
    ELSE IF ds[i].logical /\ ds[i].volume_group = vg THEN i
         ELSE LogicalFrom(ds, vg, i + 1)

get_logical_device(ds, vg) == LogicalFrom(ds, vg, 1)

\* if partition.mount_point == Some(mount.into())
partition_is_mounted(partition, t) == partition.mount_point # None

partition_mounted_at(partition, t) == partition.mount_point = Some(t)

\* The Some branch of map_or_else: |m| m == Path::new(mount)
device_mounted_at(dev, t) == get_mount_point(dev) = Some(t)

\* The logical device the closure recurses into for `partition` of `dev`:
\* volume_group, then get_parent(), then get_logical_device(vg); 0 if any of
\* the three is None.
recursion_target(ds, dev, partition) ==
    IF partition.volume_group = None THEN 0
    ELSE IF ~get_parent(dev) THEN 0
    ELSE get_logical_device(ds, partition.volume_group[1])

\* Deepest nesting of contains_mount calls the model follows; a call nested
\* deeper has exhausted the stack.
MaxDepth == 3

Frame(d, i) == [dev |-> d, idx |-> i]

Top == stack[Len(stack)]
Pop == SubSeq(stack, 1, Len(stack) - 1)

\* The innermost call returns v.
Finish(v) ==
    /\ stack' = Pop
    /\ ret' = v
    /\ status' = IF Len(stack) = 1 THEN "done" ELSE "returning"

\* contains_mount is called on a device of the collection.
ContainsMountCall ==
    /\ status = "idle"
    /\ \E d \in 1..Len(disks) :
         /\ device' = d
         /\ stack' = <<Frame(d, 0)>>
    /\ status' = "running"
    /\ UNCHANGED <<ret, disks, mount>>
    /\ UNCHANGED <<addVars, sectorVars, findVars>>

\* self.get_mount_point().map_or_else(check_partitions, |m| m == Path::new(mount))
ContainsMountEnter ==
    /\ status = "running"
    /\ Top.idx = 0
    /\ IF get_mount_point(disks[Top.dev]) # None
       THEN Finish(device_mounted_at(disks[Top.dev], mount))
       ELSE /\ stack' = [stack EXCEPT ![Len(stack)].idx = 1]
            /\ UNCHANGED <<ret, status>>
    /\ UNCHANGED <<device, disks, mount>>
    /\ UNCHANGED <<addVars, sectorVars, findVars>>

\* One turn of get_partitions().iter().any(..): the closure on the next
\* partition, up to its return or to the nested contains_mount call.
ContainsMountScan ==
    /\ status = "running"
    /\ Top.idx > 0
    /\ LET dev == disks[Top.dev]
           parts == get_partitions(dev)
       IN  IF Top.idx > Len(parts) THEN Finish(FALSE)
           ELSE IF partition_mounted_at(parts[Top.idx], mount) THEN Finish(TRUE)
           ELSE LET d == recursion_target(disks, dev, parts[Top.idx])
                IN  IF d = 0
                    THEN /\ stack' = [stack EXCEPT ![Len(stack)].idx = @ + 1]
                         /\ UNCHANGED <<ret, status>>
                    ELSE IF Len(stack) < MaxDepth
                    THEN /\ stack' = Append(stack, Frame(d, 0))
                         /\ UNCHANGED <<ret, status>>
                    ELSE /\ status' = "stack_overflow"
                         /\ UNCHANGED <<ret, stack>>
    /\ UNCHANGED <<device, disks, mount>>
    /\ UNCHANGED <<addVars, sectorVars, findVars>>

\* The nested call has returned `ret` to the closure: true ends any() and the
\* caller with it, false moves any() to the next partition.
ContainsMountResume ==
    /\ status = "returning"
    /\ IF ret
       THEN Finish(TRUE)
       ELSE /\ stack' = [stack EXCEPT ![Len(stack)].idx = @ + 1]
            /\ status' = "running"
            /\ UNCHANGED ret
    /\ UNCHANGED <<device, disks, mount>>
    /\ UNCHANGED <<addVars, sectorVars, findVars>>

\* The paths in play.
Root == "/"
Home == "/home"

\* A device's volumes: none, one or two, each mounted at / or not, each a
\* member of group a, of group b or of none.
MountPartitions ==
    {MountPartition(mp, vg, None) :
        mp \in {None, Some(Root)}, vg \in {None, Some("a"), Some("b")}}

MountLists ==
    {<<>>} \cup {<<p>> : p \in MountPartitions}
           \cup {<<p, q>> : p \in MountPartitions, q \in MountPartitions}

\* Two devices: a disk or the logical device of group a, and the logical
\* device of group b.
InitMount ==
    /\ \E l \in BOOLEAN, par1, par2 \in BOOLEAN :
       \E mp1, mp2 \in {None, Some(Home)} :
       \E ps1, ps2 \in MountLists :
         disks = << Device(IF l THEN "/dev/mapper/a" ELSE "/dev/sda", l,
                           IF l THEN "a" ELSE "", mp1, par1, ps1),
                    Device("/dev/mapper/b", TRUE, "b", mp2, par2, ps2) >>
    /\ mount \in {Root, Home}
    /\ IdleMount /\ IdleAdd /\ IdleSector /\ IdleFind
    /\ total_sectors = 0 /\ sector_size = 512

NextMount ==
    \/ ContainsMountCall
    \/ ContainsMountEnter
    \/ ContainsMountScan
    \/ ContainsMountResume

SpecMount == InitMount /\ [][NextMount]_vars

(***************************************************************************)
(* find_partition and find_partition_mut.  Both return the owning device's *)
(* path with a reference to the partition, given here by the positions of  *)
(* the device and of the partition.                                        *)
(***************************************************************************)
Match(ds, i, j) == Some([path |-> get_device_path(ds[i]), disk |-> i, part |-> j])

\* find_partition: the loops from device i, partition j on.
RECURSIVE find_partition_by_mount_point_from(_, _, _, _)
find_partition_by_mount_point_from(ds, target, i, j) ==
    IF i > Len(ds) THEN None
    ELSE IF j > Len(get_partitions(ds[i]))
         THEN find_partition_by_mount_point_from(ds, target, i + 1, 1)
    ELSE IF get_partitions(ds[i])[j].mount_point = Some(target) THEN Match(ds, i, j)
    ELSE find_partition_by_mount_point_from(ds, target, i, j + 1)

find_partition_by_mount_point(ds, target) ==
    find_partition_by_mount_point_from(ds, target, 1, 1)

RECURSIVE find_partition_from(_, _, _, _)
find_partition_from(ds, target, i, j) ==
    IF i > Len(ds) THEN None
    ELSE IF j > Len(get_partitions(ds[i]))
         THEN find_partition_from(ds, target, i + 1, 1)
    ELSE LET partition == get_partitions(ds[i])[j]
         IN  IF partition.target # None /\ partition.target[1] = target
             THEN Match(ds, i, j)
             ELSE find_partition_from(ds, target, i, j + 1)

find_partition(ds, target) == find_partition_from(ds, target, 1, 1)

\* find_partition_mut: the same loops with the `found` flag, the path taken
\* by value before the partitions are borrowed.
RECURSIVE find_partition_mut_from(_, _, _, _)
find_partition_mut_from(ds, target, i, j) ==
    IF i > Len(ds) THEN None
    ELSE LET path == get_device_path(ds[i])
         IN  IF j > Len(get_partitions(ds[i]))
             THEN find_partition_mut_from(ds, target, i + 1, 1)
             ELSE LET partition == get_partitions(ds[i])[j]
                      was_found == IF partition.target # None
                                   THEN partition.target[1] = target
                                   ELSE FALSE
                  IN  IF was_found
                      THEN Some([path |-> path, disk |-> i, part |-> j])
                      ELSE find_partition_mut_from(ds, target, i, j + 1)

find_partition_mut(ds, target) == find_partition_mut_from(ds, target, 1, 1)

\* A device's partitions for the locator: planned at /, at /home or nowhere,
\* and mounted at / or not.
FindPartitions ==
    {MountPartition(mp, None, tg) :
        mp \in {None, Some(Root)}, tg \in {None, Some(Root), Some(Home)}}

FindLists ==
    {<<>>} \cup {<<p>> : p \in FindPartitions}
           \cup {<<p, q>> : p \in FindPartitions, q \in FindPartitions}

InitFind ==
    /\ \E ps1, ps2 \in FindLists :
         disks = << Device("/dev/sda", FALSE, "", None, FALSE, ps1),
                    Device("/dev/sdb", FALSE, "", None, FALSE, ps2) >>
    /\ mount \in {Root, Home}
    /\ IdleMount /\ IdleAdd /\ IdleSector /\ IdleFind
    /\ total_sectors = 0 /\ sector_size = 512

FindPartition ==
    /\ found' = [kind |-> "Call", out |-> find_partition(disks, mount)]
    /\ UNCHANGED <<found_mut, disks, mount>>
    /\ UNCHANGED <<addVars, sectorVars, mountVars>>

FindPartitionMut ==
    /\ found_mut' = [kind |-> "Call", out |-> find_partition_mut(disks, mount)]
    /\ UNCHANGED <<found, disks, mount>>
    /\ UNCHANGED <<addVars, sectorVars, mountVars>>

NextFind == FindPartition \/ FindPartitionMut

SpecFind == InitFind /\ [][NextFind]_vars

(***************************************************************************)
(* Properties of add_partition and overlaps_region.                        *)
(***************************************************************************)
\* The sectors of the inclusive range [start, end].
SectorsOf(start, end) == {x \in 0..(MaxSector + 1) : start <= x /\ x <= end}

\* Partition `part` shares a sector with the range [start, end].
SharesSector(part, start, end) ==
    SectorsOf(part.start_sector, part.end_sector) \cap SectorsOf(start, end) # {}

\* The positions of the partitions of `parts` that are not flagged REMOVE and
\* share a sector with [start, end].
Conflicting(parts, start, end) ==
    {i \in 1..Len(parts) : ~parts[i].remove /\ SharesSector(parts[i], start, end)}

Least(S) == CHOOSE i \in S : \A j \in S : i <= j

Called == result.kind # "NoCall"

\* C1: add_partition is all-or-nothing.  When it returns an error the
\* partition list is exactly the list before the call; when it returns Ok the
\* list is the old list with the built candidate appended and nothing else
\* changed.
C1_AllOrNothing ==
    Called =>
        /\ result.kind \in {"Ok", "SectorOverlaps", "PartitionOOB", "TableError", "SizeError"}
        /\ result.kind # "Ok" => partitions = before
        /\ result.kind = "Ok" =>
              /\ Len(partitions) = Len(before) + 1
              /\ \A i \in 1..Len(before) : partitions[i] = before[i]
              /\ partitions[Len(partitions)] =
                    [number |-> builder.number, start_sector |-> builder.start_sector,
                     end_sector |-> builder.end_sector, remove |-> FALSE]

\* C1 witness: a call that passed every check but the last (the filesystem
\* size) on a device that already holds a partition, and left the list alone.
C1_Witness ==
    /\ result.kind = "SizeError"
    /\ Len(before) > 0
    /\ partitions = before

\* C2: on a physical device a candidate that shares a sector with a partition
\* not flagged REMOVE is rejected with SectorOverlaps{id}, id being the number
\* of the first such partition in stored order, whatever the capacity, table
\* and filesystem-size checks would have said.
C2_PhysicalOverlapRejected ==
    (Called /\ ~LOGICAL
        /\ Conflicting(before, builder.start_sector, builder.end_sector) # {})
    => /\ result = SectorOverlaps(
              before[Least(Conflicting(before, builder.start_sector,
                                       builder.end_sector))].number)
       /\ partitions = before

\* C2 witness: the candidate covers a REMOVE-flagged partition and a later
\* live one, lies beyond the disk, and both external checks would fail: the
\* live partition's number is reported.
C2_Witness ==
    /\ Called /\ ~LOGICAL
    /\ Len(before) >= 2
    /\ before[1].remove
    /\ SharesSector(before[1], builder.start_sector, builder.end_sector)
    /\ result = SectorOverlaps(before[2].number)
    /\ builder.end_sector > total_sectors
    /\ builder.table = "Err" /\ builder.size = "Err"

\* C3: on a logical device whose table and filesystem-size checks pass,
\* add_partition is accepted iff U + requested_sectors <= C, with
\* requested_sectors = end_sector - start_sector + 1, and fails with
\* PartitionOOB otherwise.
C3_LogicalAcceptedIffFits ==
    (Called /\ LOGICAL /\ builder.table = "Ok" /\ builder.size = "Ok")
    => LET U == get_used(before)
           requested_sectors == builder.end_sector - builder.start_sector + 1
       IN  IF U + requested_sectors <= total_sectors
           THEN result.kind = "Ok"
           ELSE result = PartitionOOB

\* The candidate of the last call fails the overlap step.
FailsOverlap ==
    ~LOGICAL /\ Conflicting(before, builder.start_sector, builder.end_sector) # {}

\* The candidate of the last call fails the capacity step, as add_partition
\* takes it.
FailsCapacity ==
    IF LOGICAL
    THEN total_sectors < get_used(before) + (builder.end_sector - builder.start_sector)
    ELSE total_sectors < builder.end_sector

InSeq(x, sq) == \E i \in 1..Len(sq) : sq[i] = x

\* C8: the error returned is that of the earliest failing step in the order
\* overlap (physical only), capacity, table legality, filesystem size; the
\* table check is not consulted after an overlap or capacity failure, nor the
\* filesystem-size check after a table failure.
C8_ErrorOrder ==
    Called =>
        /\ FailsOverlap => result.kind = "SectorOverlaps"
        /\ (~FailsOverlap /\ FailsCapacity) => result = PartitionOOB
        /\ (~FailsOverlap /\ ~FailsCapacity /\ builder.table = "Err")
              => result = TableError
        /\ (~FailsOverlap /\ ~FailsCapacity /\ builder.table = "Ok"
                /\ builder.size = "Err") => result = SizeError
        /\ result.kind \in {"SectorOverlaps", "PartitionOOB"}
              => (~InSeq(ChkTable, consulted) /\ ~InSeq(ChkSize, consulted))
        /\ result.kind = "TableError" => ~InSeq(ChkSize, consulted)
        /\ result.kind = "SectorOverlaps" => ~InSeq(ChkCapacity, consulted)

\* C8 witness: a candidate that fails all four steps at once.
C8_Witness ==
    /\ Called /\ FailsOverlap /\ FailsCapacity
    /\ builder.table = "Err" /\ builder.size = "Err"
    /\ result.kind = "SectorOverlaps"

\* C10: on a physical device, after any sequence of add_partition calls, the
\* partitions not flagged REMOVE have pairwise disjoint inclusive ranges and
\* end at or below total_sectors.
C10_PhysicalPlanConsistent ==
    ~LOGICAL =>
        /\ \A i, j \in 1..Len(partitions) :
              (i # j /\ ~partitions[i].remove /\ ~partitions[j].remove)
                => ~SharesSector(partitions[i], partitions[j].start_sector,
                                 partitions[j].end_sector)
        /\ \A i \in 1..Len(partitions) :
              ~partitions[i].remove => partitions[i].end_sector <= total_sectors

\* C10 witness: a physical device after accepted and rejected calls, holding
\* two live partitions of which the last was just added over a removed one.
C10_Witness ==
    /\ ~LOGICAL
    /\ result.kind = "Ok"
    /\ Len(partitions) = 3
    /\ partitions[1].remove
    /\ SharesSector(partitions[1], builder.start_sector, builder.end_sector)

\* C4: overlaps_region(start, end) with start <= end returns None iff the
\* range shares no sector with a partition not flagged REMOVE, and otherwise
\* the number of the first such partition in stored order; a REMOVE-flagged
\* partition is never returned; the pairwise test is symmetric.
C4_OverlapsRegion ==
    query.kind = "Call" =>
        LET hit == Conflicting(partitions, query.start, query.end)
        IN  /\ (query.out = None) <=> (hit = {})
            /\ hit # {} => query.out = Some(partitions[Least(hit)].number)
            /\ \A i \in 1..Len(partitions) :
                  partitions[i].remove => query.out # Some(partitions[i].number)
            /\ \A i \in 1..Len(partitions) :
                  Conflicts(partitions[i], query.start, query.end)
                  <=> Conflicts([start_sector |-> query.start, end_sector |-> query.end],
                                partitions[i].start_sector, partitions[i].end_sector)

\* C4 witness: the range lies on a REMOVE-flagged partition and on a later
\* live one; the later one's number is returned.
C4_Witness ==
    /\ query.kind = "Call"
    /\ Len(partitions) = 2
    /\ partitions[1].remove
    /\ SharesSector(partitions[1], query.start, query.end)
    /\ query.out = Some(partitions[2].number)

(***************************************************************************)
(* Properties of get_sector.                                               *)
(***************************************************************************)
FromEnd == {"MegabyteFromEnd", "UnitFromEnd"}

\* The last two calls asked for the same from-the-end variant, the earlier
\* with the smaller n.
TwoFromEnd ==
    /\ Len(resolved) = 2
    /\ resolved[1].sector.kind \in FromEnd
    /\ resolved[2].sector.kind = resolved[1].sector.kind
    /\ resolved[1].sector.size < resolved[2].sector.size

\* C9 as claimed: for a fixed geometry, get_sector(MegabyteFromEnd(n)) and
\* get_sector(UnitFromEnd(n)) are strictly decreasing in n over every n of the
\* word, computed without underflow or overflow.
C9_StrictlyDecreasingEverywhere ==
    TwoFromEnd =>
        /\ ~resolved[1].of /\ ~resolved[2].of
        /\ resolved[1].out # Panic /\ resolved[2].out # Panic
        /\ resolved[1].out > resolved[2].out

\* The geometry leaves room for the two reserved 2 MiB regions, and n is small
\* enough for End - n, resp. End - Megabyte(n), to stay inside the word.
FromEndInRange(sector) ==
    /\ total_sectors >= MIB2 \div sector_size
    /\ sector.kind = "UnitFromEnd" =>
          sector.size <= total_sectors - MIB2 \div sector_size
    /\ sector.kind = "MegabyteFromEnd" =>
          /\ sector_size <= Million
          /\ sector.size <= (Modulus - 1) \div Million
          /\ (sector.size * Million) \div sector_size
                <= total_sectors - MIB2 \div sector_size

\* C9 amended: for a fixed geometry with total_sectors >= 2 MiB / sector_size
\* (and sector_size <= 1,000,000 for MegabyteFromEnd), the two variants are
\* strictly decreasing in n, and computed without underflow or overflow, over
\* the n for which n * 1,000,000 fits the word and Megabyte(n) <= End,
\* resp. n <= End.
C9_StrictlyDecreasingInRange ==
    (TwoFromEnd /\ FromEndInRange(resolved[1].sector)
                /\ FromEndInRange(resolved[2].sector))
    => /\ ~resolved[1].of /\ ~resolved[2].of
       /\ resolved[1].out # Panic /\ resolved[2].out # Panic
       /\ resolved[1].out > resolved[2].out

\* C9 witness: two in-range MegabyteFromEnd calls under overflow checks, the
\* second with the larger n and the smaller result.
C9_Witness ==
    /\ TwoFromEnd
    /\ overflow_checks
    /\ resolved[1].sector.kind = "MegabyteFromEnd"
    /\ resolved[1].sector.size > 0
    /\ FromEndInRange(resolved[2].sector)
    /\ resolved[2].out # Panic
    /\ resolved[2].out < resolved[1].out

(***************************************************************************)
(* Properties of contains_mount.                                           *)
(***************************************************************************)
\* The logical device partition i of device d leads to: its volume group,
\* looked up through the device's parent collection; 0 if there is none.
LeadsTo(d, i) ==
    LET p == disks[d].partitions[i]
    IN  IF p.volume_group = None \/ ~disks[d].parent THEN 0
        ELSE get_logical_device(disks, p.volume_group[1])

\* The mount resolution as the amended C5 states it, followed through at most
\* `fuel` volume groups: a device with a mount point answers by that mount
\* point alone; a device without one answers by its partitions.
RECURSIVE Resolves(_, _)
Resolves(d, fuel) ==
    IF disks[d].mount_point # None
    THEN disks[d].mount_point = Some(mount)
    ELSE \E i \in 1..Len(disks[d].partitions) :
            \/ disks[d].partitions[i].mount_point = Some(mount)
            \/ /\ fuel > 0
               /\ LeadsTo(d, i) # 0
               /\ Resolves(LeadsTo(d, i), fuel - 1)

\* The mount resolution as C5 states it: true when the device's mount point is
\* the path, and in every other case decided by the partitions.
RECURSIVE ResolvesAsClaimed(_, _)
ResolvesAsClaimed(d, fuel) ==
    \/ disks[d].mount_point = Some(mount)
    \/ \E i \in 1..Len(disks[d].partitions) :
            \/ disks[d].partitions[i].mount_point = Some(mount)
            \/ /\ fuel > 0
               /\ LeadsTo(d, i) # 0
               /\ ResolvesAsClaimed(LeadsTo(d, i), fuel - 1)

C6_Terminates == status # "stack_overflow"

(***************************************************************************)
(* Properties of find_partition and find_partition_mut.                    *)
(***************************************************************************)
\* The positions (device, partition) whose target is the path.
Targets ==
    {ij \in (1..Len(disks)) \X (1..2) :
        /\ ij[2] <= Len(disks[ij[1]].partitions)
        /\ disks[ij[1]].partitions[ij[2]].target = Some(mount)}

\* The first of them, devices in collection order, then partitions in device
\* order.
FirstTarget ==
    CHOOSE ij \in Targets :
        \A kl \in Targets : ij[1] < kl[1] \/ (ij[1] = kl[1] /\ ij[2] <= kl[2])

Located ==
    IF Targets = {} THEN None
    ELSE Some([path |-> disks[FirstTarget[1]].path,
               disk |-> FirstTarget[1], part |-> FirstTarget[2]])

\* C7: find_partition and find_partition_mut select the same partition: the
\* first, in collection order then device order, whose target is the path,
\* with the path of its device; none when no target is the path, whatever the
\* mount_points are.
C7_SameFirstTarget ==
    /\ found.kind = "Call" => found.out = Located
    /\ found_mut.kind = "Call" => found_mut.out = Located
    /\ (found.kind = "Call" /\ found_mut.kind = "Call") => found.out = found_mut.out

\* C7 witness: both were called, the first partition of the first device is
\* mounted at the path but planned elsewhere, and both select a partition of
\* the second device.
C7_Witness ==
    /\ found.kind = "Call" /\ found_mut.kind = "Call"
    /\ Len(disks[1].partitions) >= 1
    /\ disks[1].partitions[1].mount_point = Some(mount)
    /\ disks[1].partitions[1].target # Some(mount)
    /\ found.out # None
    /\ found.out[1].disk = 2
    /\ found_mut.out = found.out

====
